---- MODULE Spec2Model ----
(***************************************************************************)
(* Verification model of the Pepper Grinder asset tools:                   *)
(*   scripts/repack_assets.py       the repacker (specification Spec)      *)
(*   scripts/encode_images_fixed.py the bitmap encoder                     *)
(*   scripts/decode_images.py       the bitmap decoder                     *)
(*   scripts/optimize_smart.py      the inline encoder / decoder           *)
(* Files are sequences of bytes (0..255); position p of a Python file is   *)
(* element p+1 of the sequence.                                            *)
(***************************************************************************)
EXTENDS Integers, Sequences, FiniteSets, TLC

VARIABLES
    orig,             \* bytes of the original Assets.dat when repack is called
    orig_f,           \* bytes of the file at the original path as a reader finds them
    output_assets,    \* the output path
    modified_dir,     \* the files of the substitute directory
    image_table,      \* the four in-memory tables, lists of <<offset, size>>
    sound_table,
    font_table,
    shader_table,
    modified_images,  \* index -> substitute file (dict of repack_assets)
    modified_sounds,
    new_f,            \* bytes of the output archive
    out_exists,       \* whether a file exists at the output path
    current_offset,   \* the write cursor
    pc,               \* position of repack_assets
    i,                \* loop index of the running loop
    img,              \* the image handed to the encoder: [w, h, pat]
    original_header,  \* the source header handed to the encoder, <<>> for None
    force_dimensions, \* <<>> for None, or <<width, height>>
    encoded,          \* what the encoder returned or raised: [status, data]
    bin_file,         \* the file at the encoder's output path: [exists, data]
    decoded,          \* what the decoder returned or raised: [status, w, h, pixels]
    cpc,              \* position of the codec run
    scale_factor,     \* optimize_single_image_smart's scale factor, <<num, den>>
    min_dimension,    \* and its minimum dimension
    optimized,        \* the file at its output path and what it returned
    table_f,          \* the file handed to the table and extract functions
    table_entries,    \* the records handed to write_asset_table
    table_at,         \* the table offset handed to both functions
    read_entries,     \* what read_asset_table returned
    extracted,        \* the file extract_asset wrote, and for which record
    diagnosis,        \* what diagnose_bin_file returned
    tpc,              \* position of the tool run
    batch_job,        \* "decode" (batch_decode_images) or "scan" (scan_directory)
    batch_files,      \* bin_files: the directory entries the glob returned
    batch_i,          \* how many of them the loop has taken
    success_count,    \* success_count of batch_decode_images
    valid,            \* the two lists of scan_directory
    invalid,
    reports,          \* what was printed for each file: [stem, ok]
    bpc,              \* position of the batch
    asset_kind,       \* the table of the asset extract.py writes
    asset_index,      \* its index in the table
    asset_head,       \* its first bytes
    output_dir,       \* the files of extract.py's output directory
    npc               \* position of the extract and repack run

repack_vars == <<orig, orig_f, output_assets, modified_dir, image_table, sound_table, font_table, shader_table,
                 modified_images, modified_sounds, new_f, out_exists, current_offset, pc, i>>

codec_vars == <<img, original_header, force_dimensions, encoded, bin_file, decoded, cpc,
                scale_factor, min_dimension, optimized>>

tool_vars == <<table_f, table_entries, table_at, read_entries, extracted, diagnosis, tpc>>

batch_vars == <<batch_job, batch_files, batch_i, success_count, valid, invalid, reports, bpc>>

naming_vars == <<asset_kind, asset_index, asset_head, output_dir, npc>>

vars == <<repack_vars, codec_vars, tool_vars, batch_vars, naming_vars>>

(***************************************************************************)
(* Scale of the model.  The archive constants of the source (10260 images, *)
(* 267 sounds, 19 fonts, 3 shaders) are scaled down; the relation between  *)
(* them is kept: in the source the sound table starts at byte 82048, which *)
(* is 8 * (IMAGE_COUNT - 4), so the last 4 image records are the first 4   *)
(* sound records.  TableOverlap is that number of shared records.          *)
(***************************************************************************)
IMAGE_COUNT == 2
SOUND_COUNT == 1
FONT_COUNT == 1
SHADER_COUNT == 1
TableOverlap == 1
\* payload length of a non-empty asset of the original archive
MaxAssetSize == 2

RecordSize == 8

Min(a, b) == IF a < b THEN a ELSE b
Max(a, b) == IF a > b THEN a ELSE b

TABLE_OFFSETS ==
    [images  |-> 0,
     sounds  |-> RecordSize * (IMAGE_COUNT - TableOverlap),
     fonts   |-> RecordSize * (IMAGE_COUNT - TableOverlap) + RecordSize * SOUND_COUNT,
     shaders |-> RecordSize * (IMAGE_COUNT - TableOverlap) + RecordSize * SOUND_COUNT
                   + RecordSize * FONT_COUNT]

COUNTS == [images |-> IMAGE_COUNT, sounds |-> SOUND_COUNT,
           fonts |-> FONT_COUNT, shaders |-> SHADER_COUNT]

Kinds == {"images", "sounds", "fonts", "shaders"}

metadata_size == IMAGE_COUNT * 8 + SOUND_COUNT * 8 + FONT_COUNT * 8 + SHADER_COUNT * 8

(***************************************************************************)
(* struct.pack('<I', v) / struct.unpack('<I', b): 32-bit little endian.    *)
(***************************************************************************)
\* the bytes in the other order: struct '>I'
Pack32_BigEndian(v) ==
    <<(v \div 16777216) % 256, (v \div 65536) % 256, (v \div 256) % 256, v % 256>>

Pack32(v) == <<v % 256, (v \div 256) % 256, (v \div 65536) % 256, (v \div 16777216) % 256>>

Unpack32(b) == b[1] + 256 * b[2] + 65536 * b[3] + 16777216 * b[4]

(***************************************************************************)
(* Python binary files: f.seek(pos); f.read(n) returns at most n bytes,    *)
(* fewer at the end of the file; f.seek(pos); f.write(data) overwrites,    *)
(* extends the file and fills a hole left by the seek with zero bytes.     *)
(***************************************************************************)
ReadAt(f, pos, n) ==
    IF pos >= Len(f) \/ n <= 0 THEN <<>> ELSE SubSeq(f, pos + 1, Min(pos + n, Len(f)))

\* a write that ignores the seek before it
WriteAt_AtStart(f, pos, data) ==
    IF data = <<>> THEN f
    ELSE [k \in 1..Max(Len(f), Len(data)) |-> IF k <= Len(data) THEN data[k] ELSE f[k]]

WriteAt(f, pos, data) ==
    IF data = <<>> THEN f
    ELSE [k \in 1..Max(Len(f), pos + Len(data)) |->
            IF k > pos /\ k <= pos + Len(data) THEN data[k - pos]
            ELSE IF k <= Len(f) THEN f[k] ELSE 0]

Zeros(n) == [k \in 1..n |-> 0]

RECURSIVE read_asset_table(_, _, _)
read_asset_table(f, table_offset, count) ==
    IF count = 0 THEN <<>>
    ELSE LET data == ReadAt(f, table_offset, 8) IN
         IF Len(data) < 8 THEN <<>>
         ELSE <<<<Unpack32(SubSeq(data, 1, 4)), Unpack32(SubSeq(data, 5, 8))>>>>
              \o read_asset_table(f, table_offset + 8, count - 1)

RECURSIVE write_asset_table(_, _, _)
write_asset_table(f, table_offset, entries) ==
    IF entries = <<>> THEN f
    ELSE write_asset_table(
             WriteAt(f, table_offset, Pack32(Head(entries)[1]) \o Pack32(Head(entries)[2])),
             table_offset + 8, Tail(entries))

(***************************************************************************)
(* File names.  A stem is the list of its '_'-separated fields, a field a  *)
(* list of character codes: image_00001 is <<"image", "00001">>.  Then     *)
(* name.startswith('image_') says that the first field is "image" and a    *)
(* second field exists, and name.split('_')[1] is the second field.        *)
(***************************************************************************)
StrImage == <<105, 109, 97, 103, 101>>
StrSound == <<115, 111, 117, 110, 100>>
StrFont == <<102, 111, 110, 116>>
StrShader == <<115, 104, 97, 100, 101, 114>>

IsDigit(c) == c >= 48 /\ c <= 57

\* int(s) of Python restricted to plain decimal digits; -1 stands for ValueError
RECURSIVE DigitsValue(_)
DigitsValue(s) ==
    IF s = <<>> THEN 0 ELSE 10 * DigitsValue(SubSeq(s, 1, Len(s) - 1)) + (s[Len(s)] - 48)

ParseInt(s) ==
    IF s = <<>> \/ \E k \in 1..Len(s) : ~IsDigit(s[k]) THEN -1 ELSE DigitsValue(s)

\* f'{n:0{w}d}' of extract.py
RECURSIVE DecDigits(_)
DecDigits(n) == IF n < 10 THEN <<48 + n>> ELSE DecDigits(n \div 10) \o <<48 + (n % 10)>>

ZeroPad(n, w) ==
    LET d == DecDigits(n) IN
    IF Len(d) >= w THEN d ELSE [k \in 1..(w - Len(d)) |-> 48] \o d

File(dir, stem, ext, data, readable) ==
    [dir |-> dir, stem |-> stem, ext |-> ext, data |-> data, readable |-> readable]

\* the index repack_assets gives a file of <modified_dir>/images, -1 when it skips it
ImageIndexOf(file) ==
    IF file.dir = "images" /\ file.ext = "bin"
       /\ Len(file.stem) >= 2 /\ file.stem[1] = StrImage
       /\ ParseInt(file.stem[2]) >= 0 /\ ParseInt(file.stem[2]) < IMAGE_COUNT
    THEN ParseInt(file.stem[2]) ELSE -1

\* the index repack_assets gives a file of <modified_dir>/sounds, -1 when it skips it
SoundIndexOf(file) ==
    IF file.dir = "sounds" /\ file.ext = "wav"
       /\ Len(file.stem) >= 2 /\ file.stem[1] = StrSound
       /\ ParseInt(file.stem[2]) >= 0 /\ ParseInt(file.stem[2]) < SOUND_COUNT
    THEN ParseInt(file.stem[2]) ELSE -1

IndexOf(kind, file) == IF kind = "images" THEN ImageIndexOf(file) ELSE SoundIndexOf(file)

\* the dicts built by the two discovery loops: where several files give the same
\* index the one globbed last wins, and the glob order is not specified
Discovered(dir, kind) ==
    LET hits == {f \in dir : IndexOf(kind, f) >= 0}
        idxs == {IndexOf(kind, f) : f \in hits}
    IN  {m \in [idxs -> hits] : \A k \in idxs : IndexOf(kind, m[k]) = k}

(***************************************************************************)
(* Inputs.  An original archive is laid out from the sizes of its table    *)
(* slots; its payload bytes are all different, so that a copy to the wrong *)
(* place shows.                                                            *)
(***************************************************************************)
NSlots == IMAGE_COUNT - TableOverlap + SOUND_COUNT + FONT_COUNT + SHADER_COUNT

TablesEnd == TABLE_OFFSETS.shaders + RecordSize * SHADER_COUNT

\* the payload length of slot k when it is not empty
SlotSize(k) == 1 + (k % MaxAssetSize)

\* the size columns of the original archives: at most one slot empty, or at
\* most one slot not empty
Shapes ==
    {s \in [1..NSlots -> 0..MaxAssetSize] :
        /\ \A k \in 1..NSlots : s[k] \in {0, SlotSize(k)}
        /\ \/ Cardinality({k \in 1..NSlots : s[k] = 0}) <= 1
           \/ Cardinality({k \in 1..NSlots : s[k] # 0}) <= 1}

RECURSIVE SumTo(_, _)
SumTo(sizes, k) == IF k = 0 THEN 0 ELSE sizes[k] + SumTo(sizes, k - 1)

PayloadByte(p) == 1 + (p % 199)

Variants == {"plain", "packed", "zero_offset", "cut_payload", "cut_shaders", "cut_images"}

\* "plain": payload from metadata_size on, in table order (what repack itself writes);
\* "packed": payload directly after the last table;
\* "zero_offset": the last shader record has offset 0;
\* "cut_*": the file is truncated in the payload / shader table / image table.
OrigArchive(sizes, variant) ==
    LET base == IF variant = "packed" THEN TablesEnd ELSE metadata_size
        off(k) == IF variant = "zero_offset" /\ k = NSlots THEN 0
                  ELSE base + SumTo(sizes, k - 1)
        full == base + SumTo(sizes, NSlots)
        \* byte p (from 0) of the table region: slot p \div 8, then <II
        tablebyte(p) ==
            LET k == (p \div RecordSize) + 1
                w == p % RecordSize
            IN  IF k > NSlots THEN 0
                ELSE IF w < 4 THEN Pack32(off(k))[w + 1] ELSE Pack32(sizes[k])[w - 3]
        cut == CASE variant = "cut_payload" -> full - 1
                 [] variant = "cut_shaders" -> TablesEnd - 4
                 [] variant = "cut_images" -> RecordSize * IMAGE_COUNT - 4
                 [] OTHER -> full
    IN  SubSeq([p \in 1..full |-> IF p <= base THEN tablebyte(p - 1) ELSE PayloadByte(p)],
               1, cut)

FilePool ==
    { File("images", <<StrImage, ZeroPad(0, 5)>>, "bin", <<201>>, TRUE),
      File("images", <<StrImage, ZeroPad(IMAGE_COUNT - 1, 5)>>, "bin", <<205, 206, 207>>, TRUE),
      File("images", <<StrImage, ZeroPad(IMAGE_COUNT, 5)>>, "bin", <<208>>, TRUE),
      File("sounds", <<StrSound, ZeroPad(0, 3)>>, "wav", <<211, 212, 213>>, TRUE),
      File("sounds", <<StrSound, ZeroPad(0, 3)>>, "ogg", <<214>>, TRUE),
      File("sounds", <<StrSound, ZeroPad(0, 1)>>, "wav", <<215>>, FALSE),
      File("fonts", <<StrFont, ZeroPad(0, 2)>>, "ttf", <<221, 222, 223>>, TRUE),
      File("shaders", <<StrShader, ZeroPad(0, 2)>>, "glsl", <<231, 232, 233>>, TRUE) }

MaxFiles == 2

Dirs == {d \in SUBSET FilePool : Cardinality(d) <= MaxFiles}

(***************************************************************************)
(* repack_assets(original_assets, modified_dir, output_assets)             *)
(***************************************************************************)
\* optimize_single_image_smart is not in use
SmartIdle ==
    /\ scale_factor = <<1, 1>>
    /\ min_dimension = 0
    /\ optimized = [exists |-> FALSE, data |-> <<>>, saved |-> FALSE, reason |-> ""]

\* the codec is not in use during a repack
CodecIdle ==
    /\ img = [w |-> 0, h |-> 0, pat |-> <<>>]
    /\ original_header = <<>>
    /\ force_dimensions = <<>>
    /\ encoded = [status |-> "none", data |-> <<>>, by |-> ""]
    /\ bin_file = [exists |-> FALSE, data |-> <<>>]
    /\ decoded = [status |-> "none", mode |-> "", w |-> 0, h |-> 0, pixels |-> <<>>]
    /\ cpc = "idle"
    /\ SmartIdle

\* no batch is running
BatchIdle ==
    /\ batch_job = ""
    /\ batch_files = <<>>
    /\ batch_i = 0
    /\ success_count = 0
    /\ valid = <<>>
    /\ invalid = <<>>
    /\ reports = <<>>
    /\ bpc = "idle"

\* extract.py is not in use
NamingIdle ==
    /\ asset_kind = ""
    /\ asset_index = 0
    /\ asset_head = <<>>
    /\ output_dir = {}
    /\ npc = "idle"

\* no tool is running
ToolsIdle ==
    /\ table_f = <<>>
    /\ table_entries = <<>>
    /\ table_at = 0
    /\ read_entries = <<>>
    /\ extracted = [exists |-> FALSE, data |-> <<>>, offset |-> 0, size |-> 0]
    /\ diagnosis = [valid |-> FALSE, messages |-> {}]
    /\ tpc = "idle"

\* the original path, and the output paths: the original path itself or
\* another one
original_assets == "Assets.dat"

OutputPaths == {"Assets.dat", "Assets_modded.dat"}

\* the file at the original path after a step that wrote to the output.
\* With the output at another path it is left alone.  With the output at
\* the original path the two handles are on one file: a reader finds the
\* bytes flushed so far, which at a close are all bytes written, and
\* otherwise are those up to the last seek of new_f, with or without the
\* write that came after it.
OnDisk(closing) ==
    IF output_assets # original_assets THEN orig_f' = orig_f
    ELSE IF closing THEN orig_f' = new_f'
    ELSE orig_f' \in {new_f, new_f'}

Init ==
    /\ \E sizes \in Shapes, variant \in Variants :
           orig = OrigArchive(sizes, variant)
    /\ orig_f = orig
    /\ output_assets \in OutputPaths
    /\ modified_dir \in Dirs
    /\ image_table = <<>>
    /\ sound_table = <<>>
    /\ font_table = <<>>
    /\ shader_table = <<>>
    /\ modified_images = <<>>
    /\ modified_sounds = <<>>
    /\ new_f = <<>>
    /\ out_exists = FALSE
    /\ current_offset = 0
    /\ pc = "read"
    /\ i = 0
    /\ CodecIdle
    /\ ToolsIdle
    /\ BatchIdle
    /\ NamingIdle

\* lines 65-109: the four tables are read, the substitutes are looked up
ReadOriginal ==
    /\ pc = "read"
    /\ image_table' = read_asset_table(orig, TABLE_OFFSETS.images, IMAGE_COUNT)
    /\ sound_table' = read_asset_table(orig, TABLE_OFFSETS.sounds, SOUND_COUNT)
    /\ font_table' = read_asset_table(orig, TABLE_OFFSETS.fonts, FONT_COUNT)
    /\ shader_table' = read_asset_table(orig, TABLE_OFFSETS.shaders, SHADER_COUNT)
    /\ modified_images' \in Discovered(modified_dir, "images")
    /\ modified_sounds' \in Discovered(modified_dir, "sounds")
    /\ pc' = "open"
    /\ UNCHANGED <<batch_vars, naming_vars, codec_vars, tool_vars, orig, orig_f, output_assets, modified_dir, new_f, out_exists, current_offset, i>>

\* lines 118-124: the output is created and the table region reserved
OpenOutput ==
    /\ pc = "open"
    /\ out_exists' = TRUE
    /\ new_f' = Zeros(metadata_size)
    /\ IF output_assets # original_assets THEN orig_f' = orig_f
       ELSE orig_f' \in {<<>>, new_f'}
    /\ current_offset' = metadata_size
    /\ pc' = "images"
    /\ i' = 0
    /\ UNCHANGED <<batch_vars, naming_vars, codec_vars, tool_vars, orig, output_assets, modified_dir, image_table, sound_table, font_table, shader_table,
                   modified_images, modified_sounds>>

\* the loop header: the next index, or the next phase after the last index
Advance(count, next) ==
    IF i + 1 < count THEN i' = i + 1 /\ pc' = pc ELSE i' = 0 /\ pc' = next

\* an uncaught exception: the with blocks close the files, nothing is removed
Abort ==
    /\ pc' = "failed"
    /\ UNCHANGED <<i, current_offset>>

\* a variant: the offset is taken after the cursor has moved
SubstituteEntry_AfterAdvance(cursor, data) == <<cursor + Len(data), Len(data)>>

\* the entry a substitute of `data` gets at cursor `cursor`
SubstituteEntry(cursor, data) == <<cursor, Len(data)>>

\* the entry a copied asset gets at cursor `cursor`
CopyEntry(entry, cursor) == <<cursor, entry[2]>>

\* the bytes copied for an entry of the original archive
CopyData(entry) == ReadAt(orig_f, entry[1], entry[2])

\* the branch "if i in modified: ..." of the image and the sound loop;
\* table[i] = ... raises IndexError on a table read short, after the write
WriteModified(table, file, count, next) ==
    IF ~file.readable
    THEN /\ Abort
         /\ UNCHANGED new_f
         /\ OnDisk(TRUE)
         /\ table' = table
    ELSE /\ new_f' = WriteAt(new_f, current_offset, file.data)
         /\ IF i + 1 > Len(table)
            THEN Abort /\ table' = table /\ OnDisk(TRUE)
            ELSE /\ table' = [table EXCEPT ![i + 1] = SubstituteEntry(current_offset, file.data)]
                 /\ current_offset' = current_offset + Len(file.data)
                 /\ Advance(count, next)
                 /\ OnDisk(FALSE)

\* the branch "else: copy original"; table[i] raises IndexError on a table read short
CopyOriginal(table, count, next) ==
    IF i + 1 > Len(table)
    THEN /\ Abort
         /\ UNCHANGED new_f
         /\ OnDisk(TRUE)
         /\ table' = table
    ELSE /\ new_f' = WriteAt(new_f, current_offset, CopyData(table[i + 1]))
         /\ OnDisk(FALSE)
         /\ table' = [table EXCEPT ![i + 1] = CopyEntry(table[i + 1], current_offset)]
         /\ current_offset' = current_offset + table[i + 1][2]
         /\ Advance(count, next)

\* lines 128-159
ProcessImage ==
    /\ pc = "images"
    /\ IF i \in DOMAIN modified_images
       THEN WriteModified(image_table, modified_images[i], IMAGE_COUNT, "sounds")
       ELSE CopyOriginal(image_table, IMAGE_COUNT, "sounds")
    /\ UNCHANGED <<batch_vars, naming_vars, codec_vars, tool_vars, orig, output_assets, modified_dir, sound_table, font_table, shader_table,
                   modified_images, modified_sounds, out_exists>>

\* lines 165-191
ProcessSound ==
    /\ pc = "sounds"
    /\ IF i \in DOMAIN modified_sounds
       THEN WriteModified(sound_table, modified_sounds[i], SOUND_COUNT, "fonts")
       ELSE CopyOriginal(sound_table, SOUND_COUNT, "fonts")
    /\ UNCHANGED <<batch_vars, naming_vars, codec_vars, tool_vars, orig, output_assets, modified_dir, image_table, font_table, shader_table,
                   modified_images, modified_sounds, out_exists>>

\* lines 197-206
ProcessFont ==
    /\ pc = "fonts"
    /\ CopyOriginal(font_table, FONT_COUNT, "shaders")
    /\ UNCHANGED <<batch_vars, naming_vars, codec_vars, tool_vars, orig, output_assets, modified_dir, image_table, sound_table, shader_table,
                   modified_images, modified_sounds, out_exists>>

\* the shader loop copies an entry only "if orig_size > 0 and orig_offset > 0"
ShaderCopied(entry) == entry[2] > 0 /\ entry[1] > 0

\* lines 212-222
ProcessShader ==
    /\ pc = "shaders"
    /\ IF i + 1 <= Len(shader_table) /\ ~ShaderCopied(shader_table[i + 1])
       THEN /\ Advance(SHADER_COUNT, "tables")
            /\ UNCHANGED <<new_f, orig_f, shader_table, current_offset>>
       ELSE CopyOriginal(shader_table, SHADER_COUNT, "tables")
    /\ UNCHANGED <<batch_vars, naming_vars, codec_vars, tool_vars, orig, output_assets, modified_dir, image_table, sound_table, font_table,
                   modified_images, modified_sounds, out_exists>>

\* lines 228-231: the four tables, in this order, each at its fixed offset
WrittenTables(f) ==
    write_asset_table(
        write_asset_table(
            write_asset_table(
                write_asset_table(f, TABLE_OFFSETS.images, image_table),
                TABLE_OFFSETS.sounds, sound_table),
            TABLE_OFFSETS.fonts, font_table),
        TABLE_OFFSETS.shaders, shader_table)

WriteTables ==
    /\ pc = "tables"
    /\ new_f' = WrittenTables(new_f)
    /\ OnDisk(TRUE)
    /\ pc' = "done"
    /\ UNCHANGED <<batch_vars, naming_vars, codec_vars, tool_vars, orig, output_assets, modified_dir, image_table, sound_table, font_table, shader_table,
                   modified_images, modified_sounds, out_exists, current_offset, i>>

Next ==
    \/ ReadOriginal
    \/ OpenOutput
    \/ ProcessImage
    \/ ProcessSound
    \/ ProcessFont
    \/ ProcessShader
    \/ WriteTables

Spec == Init /\ [][Next]_vars

(***************************************************************************)
(* Reading the archives back.                                              *)
(***************************************************************************)
\* the table of a kind as a reader of the output archive finds it
OutTable(kind) == read_asset_table(new_f, TABLE_OFFSETS[kind], COUNTS[kind])

\* the table of a kind in the original archive
OrigTable(kind) == read_asset_table(orig, TABLE_OFFSETS[kind], COUNTS[kind])

\* the in-memory table of a kind
TableOf(kind) ==
    CASE kind = "images" -> image_table
      [] kind = "sounds" -> sound_table
      [] kind = "fonts" -> font_table
      [] kind = "shaders" -> shader_table

\* the files of the substitute directory named by kind and index
SubstituteFiles(kind, idx) ==
    {f \in modified_dir : f.dir = kind /\ Len(f.stem) >= 2 /\ ParseInt(f.stem[2]) = idx}

Indexes(kind) == 0..(COUNTS[kind] - 1)

\* all records of the output archive, as <<kind, index, offset, size>>
OutRecords ==
    UNION {{<<kind, idx, OutTable(kind)[idx + 1][1], OutTable(kind)[idx + 1][2]>> :
               idx \in 0..(Len(OutTable(kind)) - 1)} : kind \in Kinds}

\* the payload region of an archive: everything from metadata_size on
Payload(f) == ReadAt(f, metadata_size, Len(f))

(***************************************************************************)
(* C1.  After a completed repack, every record without a substitute reads  *)
(* back from the output with its original size, and the output bytes of    *)
(* its range equal the original bytes of its original range.               *)
(***************************************************************************)
C1_Preserved ==
    pc = "done" =>
        \A kind \in Kinds : \A idx \in Indexes(kind) :
            SubstituteFiles(kind, idx) = {} =>
                /\ idx < Len(OutTable(kind))
                /\ idx < Len(OrigTable(kind))
                /\ OutTable(kind)[idx + 1][2] = OrigTable(kind)[idx + 1][2]
                /\ ReadAt(new_f, OutTable(kind)[idx + 1][1], OutTable(kind)[idx + 1][2])
                     = ReadAt(orig, OrigTable(kind)[idx + 1][1], OrigTable(kind)[idx + 1][2])

(***************************************************************************)
(* C2.  After a repack every record of the four tables has an offset       *)
(* >= metadata_size, the ranges of the records do not overlap pairwise and *)
(* they cover every byte from metadata_size to the end of the archive.     *)
(***************************************************************************)
\* two ranges share a byte (an empty range shares none)
Overlap(r, q) == r[4] > 0 /\ q[4] > 0 /\ r[3] < q[3] + q[4] /\ q[3] < r[3] + r[4]

C2_Contiguous ==
    pc = "done" =>
        /\ \A kind \in Kinds : Len(OutTable(kind)) = COUNTS[kind]
        /\ \A r \in OutRecords : r[3] >= metadata_size
        /\ \A r, q \in OutRecords : (r[1] # q[1] \/ r[2] # q[2]) => ~Overlap(r, q)
        /\ \A p \in metadata_size..(Len(new_f) - 1) :
               \E r \in OutRecords : r[3] <= p /\ p < r[3] + r[4]

(***************************************************************************)
(* C8.  Repacking with an empty substitute directory gives an output whose *)
(* payload region equals the payload region of the original, with every    *)
(* record size unchanged.                                                  *)
(***************************************************************************)
C8_Identity ==
    (pc = "done" /\ modified_dir = {}) =>
        /\ Payload(new_f) = Payload(orig)
        /\ \A kind \in Kinds : \A idx \in Indexes(kind) :
               /\ idx < Len(OutTable(kind))
               /\ OutTable(kind)[idx + 1][2] = OrigTable(kind)[idx + 1][2]

(***************************************************************************)
(* C10.  A repack that fails after it started leaves no file at the output *)
(* path.                                                                   *)
(***************************************************************************)
C10_NoPartialArchive == pc = "failed" => ~out_exists

(***************************************************************************)
(* C9.  For each of the four tables and each record index for which a      *)
(* substitute exists in the substitute directory, the step of repack that  *)
(* handles the index writes the full bytes of the substitute at the write  *)
(* cursor and sets the record to (write cursor, length of the substitute). *)
(* A substitute is read here as a readable file named as the usage text of *)
(* repack_assets and extract.py name it; when several files name the same  *)
(* index, any of them may be the one written.                              *)
(***************************************************************************)
Prefix(kind) ==
    CASE kind = "images" -> StrImage
      [] kind = "sounds" -> StrSound
      [] kind = "fonts" -> StrFont
      [] kind = "shaders" -> StrShader

Ext(kind) ==
    CASE kind = "images" -> "bin"
      [] kind = "sounds" -> "wav"
      [] kind = "fonts" -> "ttf"
      [] kind = "shaders" -> "glsl"

NamedSubstitutes(kind, idx) ==
    {f \in SubstituteFiles(kind, idx) : f.stem[1] = Prefix(kind) /\ f.ext = Ext(kind)}

\* the index is a record of the table read, and has substitutes, all readable
HasSubstitute(kind, idx) ==
    /\ idx < Len(TableOf(kind))
    /\ NamedSubstitutes(kind, idx) # {}
    /\ \A f \in NamedSubstitutes(kind, idx) : f.readable

\* the step taken from this state put `data` at the cursor and recorded it
Substituted(kind, data) ==
    /\ ReadAt(new_f', current_offset, Len(data)) = data
    /\ TableOf(kind)'[i + 1] = <<current_offset, Len(data)>>
    /\ current_offset' = current_offset + Len(data)

PackH(v) == <<v % 256, (v \div 256) % 256>>

UnpackH(b) == b[1] + 256 * b[2]

\* bytearray slice assignment / struct.pack_into: `bytes` put at offset `off`
PackInto(header, off, bytes) ==
    [k \in 1..Len(header) |->
        IF k > off /\ k <= off + Len(bytes) THEN bytes[k - off] ELSE header[k]] \o <<>>

(***************************************************************************)
(* struct '<f': IEEE 754 binary32.  A value is kept exactly, as            *)
(* [n, e] = n * 2^e with n >= 0 (hotspots are not negative here; NaN,      *)
(* infinities and denormals are outside the model).                        *)
(***************************************************************************)
RECURSIVE Pow2(_)
Pow2(k) == IF k = 0 THEN 1 ELSE 2 * Pow2(k - 1)

Two23 == Pow2(23)

\* n * 2^e with n odd
RECURSIVE Odd(_, _)
Odd(n, e) == IF n % 2 = 0 THEN Odd(n \div 2, e + 1) ELSE [n |-> n, e |-> e]

\* struct.unpack('<f', b)
UnpackF(b) ==
    LET exp == (b[4] % 128) * 2 + (b[3] \div 128)
        mant == (b[3] % 128) * 65536 + b[2] * 256 + b[1]
    IN  IF exp = 0 /\ mant = 0 THEN [n |-> 0, e |-> 0]
        ELSE Odd(Two23 + mant, exp - 150)

\* the 24-bit significand of num/den and its exponent, by long division,
\* rounded to nearest, ties to even: num/den ~ q * 2^(-k)
RECURSIVE Divide24(_, _, _, _)
Divide24(q, r, den, k) ==
    IF q >= Two23
    THEN LET up == 2 * r > den \/ (2 * r = den /\ q % 2 = 1)
             q1 == IF up THEN q + 1 ELSE q
         IN  IF q1 = 2 * Two23 THEN [q |-> Two23, k |-> k - 1] ELSE [q |-> q1, k |-> k]
    ELSE Divide24(2 * q + (IF 2 * r >= den THEN 1 ELSE 0),
                  IF 2 * r >= den THEN 2 * r - den ELSE 2 * r, den, k + 1)

\* struct.pack('<f', num / den * 2^e) for 0 <= num < 2^24, den > 0
PackF(num, den, e) ==
    IF num = 0 THEN <<0, 0, 0, 0>>
    ELSE LET d == Divide24(num \div den, num % den, den, 0)
             exp == e - d.k + 150
             mant == d.q - Two23
         IN  <<mant % 256, (mant \div 256) % 256,
               (mant \div 65536) + 128 * (exp % 2), exp \div 2>>

\* old_hotspot / old_dim * new_dim, packed (the quotient is exact in the model:
\* see Divide24)
ScaleHotspot(b, old_dim, new_dim) ==
    LET v == UnpackF(b) IN PackF(v.n * new_dim, old_dim, v.e)

(***************************************************************************)
(* zlib.  A stream is the two header bytes, a body and a check value.  The *)
(* header is zlib's own: CMF = 0x78 and FLG = 0x9C at level 6, 0xDA at     *)
(* level 9 (the FLEVEL bits of RFC 1950), CMF * 256 + FLG a multiple of    *)
(* 31.  The body stands for deflate: lossless, never longer at level 9     *)
(* than at level 6 and on some data strictly shorter (a run of up to       *)
(* MaxRun(level) equal bytes becomes one <<count lo, count hi, byte>>      *)
(* triple).  The check value is the length of the data.                    *)
(***************************************************************************)
ZlibCMF == 120

ZlibFLG(level) == IF level = 9 THEN 218 ELSE 156

MaxRun(level) == IF level = 9 THEN 65535 ELSE 32768

\* the end (exclusive) of the run of equal bytes that starts at k, at most
\* `most` long
RunEnd(d, k, most) ==
    LET stop == Min(Len(d) + 1, k + most)
        diff == {j \in (k + 1)..stop : j = stop \/ d[j] # d[k]}
    IN  CHOOSE j \in diff : \A j2 \in diff : j <= j2

RECURSIVE Deflate(_, _, _)
Deflate(d, k, level) ==
    IF k > Len(d) THEN <<>>
    ELSE LET e == RunEnd(d, k, MaxRun(level))
         IN  PackH(e - k) \o <<d[k]>> \o Deflate(d, e, level)

\* zlib.compress(data, level)
Compress(data, level) ==
    <<ZlibCMF, ZlibFLG(level)>> \o Deflate(data, 1, level) \o PackH(Len(data) % 65536)

RECURSIVE Inflate(_, _)
Inflate(body, k) ==
    IF k > Len(body) THEN <<>>
    ELSE [j \in 1..UnpackH(<<body[k], body[k + 1]>>) |-> body[k + 2]]
            \o Inflate(body, k + 3)

\* zlib.decompress(stream): [ok, data]; not ok is zlib.error
Decompress(stream) ==
    LET n == Len(stream)
        body == SubSeq(stream, 3, n - 2)
        data == Inflate(body, 1)
    IN  IF n < 4 \/ stream[1] # ZlibCMF \/ (stream[1] * 256 + stream[2]) % 31 # 0
           \/ (n - 4) % 3 # 0
        THEN [ok |-> FALSE, data |-> <<>>]
        ELSE IF \E k \in 1..((n - 4) \div 3) : body[3 * k - 2] = 0 /\ body[3 * k - 1] = 0
        THEN [ok |-> FALSE, data |-> <<>>]
        ELSE IF PackH(Len(data) % 65536) # SubSeq(stream, n - 1, n)
        THEN [ok |-> FALSE, data |-> <<>>]
        ELSE [ok |-> TRUE, data |-> data]

(***************************************************************************)
(* PIL images.  An image is its size and the pattern its RGBA bytes        *)
(* repeat; tobytes() is width * height * 4 bytes long.                     *)
(***************************************************************************)
Tobytes(image) ==
    [k \in 1..(image.w * image.h * 4) |-> image.pat[((k - 1) % Len(image.pat)) + 1]]
        \o <<>>

\* img.resize((width, height), LANCZOS): the new size; the resampled colours
\* are kept as the source's pattern
Resize(image, width, height) == [w |-> width, h |-> height, pat |-> image.pat]

(***************************************************************************)
(* encode_images_fixed.py                                                  *)
(***************************************************************************)
analyze_original_header(header_bytes) ==
    IF Len(header_bytes) < 50 THEN [none |-> TRUE]
    ELSE [none |-> FALSE,
          width |-> UnpackH(SubSeq(header_bytes, 1, 2)),
          height |-> UnpackH(SubSeq(header_bytes, 3, 4)),
          hotspot_x |-> SubSeq(header_bytes, 17, 20),
          hotspot_y |-> SubSeq(header_bytes, 21, 24),
          flags |-> UnpackH(SubSeq(header_bytes, 25, 26)),
          decompressed_size |-> UnpackH(SubSeq(header_bytes, 47, 48))]

MAX_PIXEL_DATA_SIZE == 65535

\* a size check against the signed 16-bit range
TooLarge_Signed(pixel_size) == pixel_size > 32767

TooLarge(pixel_size) == pixel_size > MAX_PIXEL_DATA_SIZE

\* only the first width and height copy
PackDimensions_FirstCopy(header, width, height) ==
    PackInto(PackInto(header, 0, PackH(width)), 2, PackH(height))

\* the six width and height copies
PackDimensions(header, width, height) ==
    LET w1 == PackInto(header, 0, PackH(width))
        w2 == PackInto(w1, 4, PackH(width))
        w3 == PackInto(w2, 12, PackH(width))
        h1 == PackInto(w3, 2, PackH(height))
        h2 == PackInto(h1, 6, PackH(height))
    IN  PackInto(h2, 14, PackH(height))

\* both dimensions differ
DimensionsChanged_Both(old_width, old_height, width, height) ==
    old_width # width /\ old_height # height

\* the header is always taken as changed
DimensionsChanged_Always(old_width, old_height, width, height) == TRUE

\* old width != width or old height != height
DimensionsChanged(old_width, old_height, width, height) ==
    old_width # width \/ old_height # height

\* a default header whose hotspot is left at the corner (0, 0)
DefaultHeader_Corner(width, height, pixel_size) ==
    LET dims == PackDimensions(Zeros(50), width, height)
        flags == PackInto(dims, 24, PackH(2))
    IN  PackInto(flags, 46, PackH(pixel_size))

\* the `else` branch: bytearray(50) and the default fields
DefaultHeader(width, height, pixel_size) ==
    LET dims == PackDimensions(Zeros(50), width, height)
        hx == PackInto(dims, 16, PackF(width, 2, 0))
        hy == PackInto(hx, 20, PackF(height, 2, 0))
        flags == PackInto(hy, 24, PackH(2))
    IN  PackInto(flags, 46, PackH(pixel_size))

\* the `if original_header and len(original_header) >= 50` branch
UpdatedHeader(original, forced, width, height, pixel_size) ==
    LET old_info == analyze_original_header(original)
        dims == PackDimensions(SubSeq(original, 1, 50), width, height)
        hot == IF forced /\ old_info.width > 0 /\ old_info.height > 0
               THEN PackInto(
                        PackInto(dims, 16,
                            ScaleHotspot(old_info.hotspot_x, old_info.width, width)),
                        20, ScaleHotspot(old_info.hotspot_y, old_info.height, height))
               ELSE dims
        size == PackInto(hot, 46, PackH(pixel_size))
    IN  IF DimensionsChanged(old_info.width, old_info.height, width, height)
        THEN PackInto(size, 20, Zeros(26))
        ELSE size

Failure(error) == [status |-> error, data |-> <<>>]

encode_chowdren_image(image, header_arg, force) ==
    LET resized == IF force # <<>> THEN Resize(image, force[1], force[2]) ELSE image
        width == resized.w
        height == resized.h
        pixel_data == Tobytes(resized)
        pixel_size == Len(pixel_data)
    IN  IF TooLarge(pixel_size) THEN Failure("ValueError")
        ELSE IF pixel_size = 0 THEN Failure("ZeroDivisionError")
        ELSE [status |-> "ok",
              data |-> (IF Len(header_arg) >= 50
                        THEN UpdatedHeader(header_arg, force # <<>>, width, height,
                                           pixel_size)
                        ELSE DefaultHeader(width, height, pixel_size))
                       \o Compress(pixel_data, 9)]

(***************************************************************************)
(* optimize_smart.py                                                       *)
(***************************************************************************)
\* for level in [6, 9]: keep the strictly smaller
BestCompressed(pixel_data) ==
    LET six == Compress(pixel_data, 6)
        nine == Compress(pixel_data, 9)
    IN  IF Len(nine) < Len(six) THEN nine ELSE six

encode_chowdren_image_inline(image, original_header_bytes) ==
    LET width == image.w
        height == image.h
        pixel_data == Tobytes(image)
        pixel_size == Len(pixel_data)
        orig_w == UnpackH(SubSeq(original_header_bytes, 1, 2))
        orig_h == UnpackH(SubSeq(original_header_bytes, 3, 4))
        dims == PackDimensions(SubSeq(original_header_bytes, 1, 50), width, height)
        size == PackInto(dims, 46, PackH(pixel_size))
        header == IF DimensionsChanged(orig_w, orig_h, width, height)
                  THEN PackInto(size, 20, Zeros(26))
                  ELSE IF orig_w > 0 /\ orig_h > 0
                  THEN PackInto(
                           PackInto(size, 16,
                               ScaleHotspot(SubSeq(original_header_bytes, 17, 20),
                                            orig_w, width)),
                           20, ScaleHotspot(SubSeq(original_header_bytes, 21, 24),
                                            orig_h, height))
                  ELSE size
    IN  IF pixel_size > 65535 THEN Failure("ValueError")
        ELSE IF Len(original_header_bytes) < 50 THEN Failure("struct.error")
        ELSE [status |-> "ok", data |-> header \o BestCompressed(pixel_data)]

(***************************************************************************)
(* decode_images.py, and the decoder of optimize_smart.py                  *)
(***************************************************************************)
\* for i in range(window): if data[i:i+2] == b'\x78\x9c'.  The first such i,
\* or -1 where the loop ends with zlib_start = None
FindMarker(data, window) ==
    LET hits == {k \in 0..(window - 1) :
                    k + 2 <= Len(data) /\ data[k + 1] = 120 /\ data[k + 2] = 156}
    IN  IF hits = {} THEN -1 ELSE CHOOSE k \in hits : \A k2 \in hits : k <= k2

NoImage(error) == [status |-> error, mode |-> "", w |-> 0, h |-> 0, pixels |-> <<>>]

\* Image.frombytes(mode, (width, height), pixel_data)
Frombytes(mode, width, height, pixel_data) ==
    [status |-> "ok", mode |-> mode, w |-> width, h |-> height, pixels |-> pixel_data]

decode_chowdren_image(data) ==
    LET width == UnpackH(SubSeq(data, 1, 2))
        height == UnpackH(SubSeq(data, 3, 4))
        zlib_start == FindMarker(data, Len(data) - 1)
        inflated == Decompress(SubSeq(data, zlib_start + 1, Len(data)))
        pixel_data == inflated.data
        expected_rgba == width * height * 4
        expected_rgb == width * height * 3
    IN  IF Len(data) < 4 THEN NoImage("struct.error")
        ELSE IF zlib_start = -1 THEN NoImage("ValueError: no zlib data")
        ELSE IF ~inflated.ok THEN NoImage("ValueError: failed to decompress")
        ELSE IF Len(pixel_data) = expected_rgba
        THEN Frombytes("RGBA", width, height, pixel_data)
        ELSE IF Len(pixel_data) = expected_rgb
        THEN Frombytes("RGB", width, height, pixel_data)
        ELSE IF Len(pixel_data) < expected_rgba
        THEN Frombytes("RGBA", width, height,
                       pixel_data \o [k \in 1..(expected_rgba - Len(pixel_data)) |-> 255])
        ELSE Frombytes("RGBA", width, height, SubSeq(pixel_data, 1, expected_rgba))

decode_chowdren_image_inline(data) ==
    LET width == UnpackH(SubSeq(data, 1, 2))
        height == UnpackH(SubSeq(data, 3, 4))
        zlib_start == FindMarker(data, Min(100, Len(data) - 1))
        inflated == Decompress(SubSeq(data, zlib_start + 1, Len(data)))
    IN  IF Len(data) < 4 THEN NoImage("struct.error")
        ELSE IF zlib_start = -1 THEN NoImage("ValueError: no zlib data")
        ELSE IF ~inflated.ok THEN NoImage("zlib.error")
        ELSE IF Len(inflated.data) # width * height * 4
        THEN NoImage("ValueError: image data")
        ELSE Frombytes("RGBA", width, height, inflated.data)

(***************************************************************************)
(* The inputs of the codec: images, source headers, forced dimensions.     *)
(***************************************************************************)
MaxDim == 2

\* the byte patterns of the small images: opaque white, one colour, two
\* colours
Patterns == {<<255>>, <<10, 20, 30, 255>>, <<10, 20, 30, 255, 40, 50, 60, 0>>}

\* sizes around the format's limit (127 x 129 x 4 = 65532, 128 x 128 x 4 =
\* 65536), the 64 x 64 sprite, and the strip whose default hotspot is 5007.0
LargeSizes == {<<64, 64>>, <<127, 129>>, <<128, 128>>, <<10014, 1>>}

SmallImages ==
    {[w |-> w, h |-> h, pat |-> pat] : w \in 1..MaxDim, h \in 1..MaxDim, pat \in Patterns}

LargeImages == {[w |-> d[1], h |-> d[2], pat |-> <<255>>] : d \in LargeSizes}

\* a 50-byte header: the fields at their offsets, `fill` everywhere else;
\* `stale` leaves the second and third size copies one off
SourceHeader(width, height, centred, fill, stale) ==
    LET copy_w == IF stale THEN width + 1 ELSE width
        copy_h == IF stale THEN height + 1 ELSE height
        blank == [k \in 1..50 |-> fill]
        dims == PackInto(PackInto(blank, 0, PackH(width)), 2, PackH(height))
        copy1 == PackInto(PackInto(dims, 4, PackH(copy_w)), 6, PackH(copy_h))
        copy2 == PackInto(PackInto(copy1, 12, PackH(copy_w)), 14, PackH(copy_h))
        hx == PackInto(copy2, 16, IF centred THEN PackF(width, 2, 0) ELSE PackF(3, 4, 0))
        hy == PackInto(hx, 20, IF centred THEN PackF(height, 2, 0) ELSE PackF(5, 2, 0))
        flags == PackInto(hy, 24, PackH(IF fill = 0 THEN 2 ELSE 4660))
    IN  PackInto(flags, 46, PackH((width * height * 4) % 65536))

HeaderSizes == ((1..MaxDim) \X (1..MaxDim)) \cup {<<0, 0>>, <<64, 64>>}

\* None, a header cut short, and the 50-byte headers
SourceHeaders ==
    {<<>>, SubSeq(SourceHeader(1, 1, TRUE, 171, FALSE), 1, 10)}
    \cup {SourceHeader(d[1], d[2], centred, look[1], look[2]) :
            d \in HeaderSizes, centred \in BOOLEAN,
            look \in {<<0, FALSE>>, <<171, FALSE>>, <<171, TRUE>>}}

SmallForces == (1..MaxDim) \X (1..MaxDim)

LargeForces == {<<32, 32>>, <<128, 128>>}

\* the headers tried with the large sizes: None, the short one and the
\* 64 x 64 ones
LargeHeaders ==
    {header \in SourceHeaders :
        Len(header) < 50 \/ UnpackH(SubSeq(header, 1, 2)) = 64}

\* the calls: an image, the source header or None, the (width, height) to
\* resize to or None.  Small images meet every header; the large sizes are
\* plain white and meet the large headers
Scenarios ==
    (SmallImages \X SourceHeaders \X ({<<>>} \cup SmallForces))
    \cup ((LargeImages \cup {[w |-> 1, h |-> 1, pat |-> <<255>>]})
            \X LargeHeaders \X ({<<>>} \cup LargeForces))

\* no repack is running while the codec is used
RepackIdle ==
    /\ orig = <<>>
    /\ orig_f = <<>>
    /\ output_assets = ""
    /\ modified_dir = {}
    /\ image_table = <<>>
    /\ sound_table = <<>>
    /\ font_table = <<>>
    /\ shader_table = <<>>
    /\ modified_images = <<>>
    /\ modified_sounds = <<>>
    /\ new_f = <<>>
    /\ out_exists = FALSE
    /\ current_offset = 0
    /\ pc = "idle"
    /\ i = 0

CodecInit ==
    /\ RepackIdle
    /\ ToolsIdle
    /\ BatchIdle
    /\ NamingIdle
    /\ \E call \in Scenarios :
           /\ img = call[1]
           /\ original_header = call[2]
           /\ force_dimensions = call[3]
    /\ encoded = [status |-> "none", data |-> <<>>, by |-> ""]
    /\ bin_file = [exists |-> FALSE, data |-> <<>>]
    /\ decoded = [status |-> "none", mode |-> "", w |-> 0, h |-> 0, pixels |-> <<>>]
    /\ cpc = "idle"
    /\ SmartIdle

\* encode_image_file: the original's first 50 bytes, the encoder, and the
\* output file written only when the encoder returned
EncodeImageFile ==
    /\ cpc = "idle"
    /\ LET header_read == SubSeq(original_header, 1, Min(50, Len(original_header)))
           encoded_data == encode_chowdren_image(img, header_read, force_dimensions)
       IN  /\ encoded' = [status |-> encoded_data.status, data |-> encoded_data.data,
                         by |-> "fixed"]
           /\ bin_file' = IF encoded_data.status = "ok"
                          THEN [exists |-> TRUE, data |-> encoded_data.data]
                          ELSE bin_file
    /\ cpc' = "encoded"
    /\ UNCHANGED <<batch_vars, naming_vars, repack_vars, tool_vars, img, original_header, force_dimensions, decoded,
                   scale_factor, min_dimension, optimized>>

\* optimize_smart.py lines 131-139: the resized image is encoded over the
\* original's header and the result is written
EncodeInline ==
    /\ cpc = "idle"
    /\ LET img_resized == IF force_dimensions # <<>>
                          THEN Resize(img, force_dimensions[1], force_dimensions[2])
                          ELSE img
           encoded_data == encode_chowdren_image_inline(img_resized, original_header)
       IN  /\ encoded' = [status |-> encoded_data.status, data |-> encoded_data.data,
                         by |-> "inline"]
           /\ bin_file' = IF encoded_data.status = "ok"
                          THEN [exists |-> TRUE, data |-> encoded_data.data]
                          ELSE bin_file
    /\ cpc' = "encoded"
    /\ UNCHANGED <<batch_vars, naming_vars, repack_vars, tool_vars, img, original_header, force_dimensions, decoded,
                   scale_factor, min_dimension, optimized>>

\* decode_image_file on the file just written
DecodeImage ==
    /\ cpc = "encoded"
    /\ bin_file.exists
    /\ decoded' = decode_chowdren_image(bin_file.data)
    /\ cpc' = "decoded"
    /\ UNCHANGED <<batch_vars, naming_vars, repack_vars, tool_vars, img, original_header, force_dimensions, encoded,
                   bin_file, scale_factor, min_dimension, optimized>>

\* optimize_smart.py line 105 on the file just written
DecodeInline ==
    /\ cpc = "encoded"
    /\ bin_file.exists
    /\ decoded' = decode_chowdren_image_inline(bin_file.data)
    /\ cpc' = "decoded"
    /\ UNCHANGED <<batch_vars, naming_vars, repack_vars, tool_vars, img, original_header, force_dimensions, encoded,
                   bin_file, scale_factor, min_dimension, optimized>>

CodecNext ==
    \/ EncodeImageFile
    \/ EncodeInline
    \/ DecodeImage
    \/ DecodeInline

CodecSpec == CodecInit /\ [][CodecNext]_vars

(***************************************************************************)
(* The bitmap codec's contracts.                                           *)
(***************************************************************************)
Encoded == cpc \in {"encoded", "decoded"}

\* the dimensions the encoder was asked for
NewWidth == IF force_dimensions # <<>> THEN force_dimensions[1] ELSE img.w

NewHeight == IF force_dimensions # <<>> THEN force_dimensions[2] ELSE img.h

\* a 50-byte source header was given (None and a header cut short are not)
HasSourceHeader == Len(original_header) >= 50

SourceWidth == UnpackH(SubSeq(original_header, 1, 2))

SourceHeight == UnpackH(SubSeq(original_header, 3, 4))

OutHeader == SubSeq(encoded.data, 1, 50)

\* C3: with no source header and no resize, decoding what the encoder of
\* encode_images_fixed.py returned for a buffer of at most 65535 bytes gives
\* the image back: its width, its height and its RGBA bytes
C3_RoundTrip ==
    (/\ cpc = "decoded"
     /\ encoded.by = "fixed"
     /\ original_header = <<>>
     /\ force_dimensions = <<>>
     /\ img.w * img.h * 4 <= 65535)
    => /\ decoded.status = "ok"
       /\ decoded.w = img.w
       /\ decoded.h = img.h
       /\ decoded.pixels = Tobytes(img)

\* C4: a pixel buffer of more than 65535 bytes makes either encoder fail with
\* the size error, with nothing returned and no file written; a buffer of at
\* most 65535 bytes is never refused with that error
C4_SizeLimit ==
    Encoded =>
        /\ NewWidth * NewHeight * 4 > 65535 =>
              /\ encoded.status = "ValueError"
              /\ encoded.data = <<>>
              /\ ~bin_file.exists
        /\ NewWidth * NewHeight * 4 <= 65535 => encoded.status # "ValueError"

\* an image one step over the limit was refused, nothing was written
C4_Witness ==
    /\ Encoded
    /\ NewWidth * NewHeight * 4 = 65536
    /\ encoded.status = "ValueError"
    /\ ~bin_file.exists

\* C5: encoding over a 50-byte source header whose width or height is not
\* the new width or height gives a header with bytes 20..45 all zero
C5_MetadataZeroed ==
    (/\ Encoded
     /\ encoded.status = "ok"
     /\ HasSourceHeader
     /\ (SourceWidth # NewWidth \/ SourceHeight # NewHeight))
    => SubSeq(OutHeader, 21, 46) = Zeros(26)

\* only the height differs, the source had a hotspot and no zero in bytes
\* 24..45, and the output's bytes 20..45 are zero
C5_Witness ==
    /\ Encoded
    /\ encoded.status = "ok"
    /\ HasSourceHeader
    /\ SourceWidth = NewWidth
    /\ SourceHeight # NewHeight
    /\ SubSeq(original_header, 21, 24) # Zeros(4)
    /\ \A k \in 25..46 : original_header[k] # 0
    /\ SubSeq(OutHeader, 21, 46) = Zeros(26)

\* C6: every successful encode leaves the three width copies equal to the
\* encoded width, the three height copies equal to the encoded height and
\* decompressed_size equal to width * height * 4, the length of the buffer
\* that was compressed
C6_HeaderSynchronised ==
    (Encoded /\ encoded.status = "ok") =>
        /\ \A off \in {0, 4, 12} : UnpackH(SubSeq(OutHeader, off + 1, off + 2)) = NewWidth
        /\ \A off \in {2, 6, 14} : UnpackH(SubSeq(OutHeader, off + 1, off + 2)) = NewHeight
        /\ UnpackH(SubSeq(OutHeader, 47, 48)) = NewWidth * NewHeight * 4
        /\ LET inflated == Decompress(SubSeq(encoded.data, 51, Len(encoded.data)))
           IN  inflated.ok /\ Len(inflated.data) = NewWidth * NewHeight * 4

\* the 64 x 64 sprite re-encoded at 32 x 32 over a header whose size copies
\* were 65: every copy reads 32, decompressed_size 4096
C6_Witness ==
    /\ Encoded
    /\ encoded.status = "ok"
    /\ HasSourceHeader
    /\ SourceWidth = 64
    /\ UnpackH(SubSeq(original_header, 5, 6)) = 65
    /\ force_dimensions = <<32, 32>>
    /\ \A off \in {0, 2, 4, 6, 12, 14} : UnpackH(SubSeq(OutHeader, off + 1, off + 2)) = 32
    /\ UnpackH(SubSeq(OutHeader, 47, 48)) = 4096

\* C7: encoding over a 50-byte source header whose width and height are the
\* new width and height keeps bytes 24..45 (flags and opaque region) and the
\* hotspot (bytes 16..23), rescaled by new / old = 1, as they were
C7_Untouched ==
    (/\ Encoded
     /\ encoded.status = "ok"
     /\ HasSourceHeader
     /\ SourceWidth = NewWidth
     /\ SourceHeight = NewHeight)
    => /\ SubSeq(OutHeader, 25, 46) = SubSeq(original_header, 25, 46)
       /\ SubSeq(OutHeader, 17, 24) = SubSeq(original_header, 17, 24)

\* a resize to the header's own size, over a header with a hotspot off the
\* centre and no zero in bytes 24..45: the hotspot was rescaled and reads as
\* before, the rest is kept
C7_Witness ==
    /\ Encoded
    /\ encoded.status = "ok"
    /\ HasSourceHeader
    /\ force_dimensions = <<SourceWidth, SourceHeight>>
    /\ <<img.w, img.h>> # force_dimensions
    /\ SubSeq(original_header, 17, 20) = PackF(3, 4, 0)
    /\ SubSeq(original_header, 21, 24) = PackF(5, 2, 0)
    /\ \A k \in 25..46 : original_header[k] # 0
    /\ SubSeq(OutHeader, 17, 46) = SubSeq(original_header, 17, 46)

(***************************************************************************)
(* The repacker's tables.                                                  *)
(***************************************************************************)
\* the output is written to a path of its own
SeparatePaths == output_assets # original_assets

\* the original holds every table in full and every record lies in its
\* payload region
ConsistentOriginal ==
    \A kind \in Kinds :
        /\ Len(OrigTable(kind)) = COUNTS[kind]
        /\ \A idx \in Indexes(kind) :
               /\ OrigTable(kind)[idx + 1][1] >= metadata_size
               /\ OrigTable(kind)[idx + 1][1] + OrigTable(kind)[idx + 1][2] <= Len(orig)

\* the bytes a record of the output denotes
OutAsset(kind, idx) ==
    ReadAt(new_f, OutTable(kind)[idx + 1][1], OutTable(kind)[idx + 1][2])

\* the bytes a record of the original denotes
OrigAsset(kind, idx) ==
    ReadAt(orig, OrigTable(kind)[idx + 1][1], OrigTable(kind)[idx + 1][2])

\* C11: after a repack of a consistent original each table of the output
\* holds its configured number of records, as the original did, and the
\* record at each index denotes the asset the original had at that index (its
\* bytes, or the bytes of a substitute file for that index)
C11_SameRecords ==
    (pc = "done" /\ ConsistentOriginal) =>
        \A kind \in Kinds :
            /\ Len(OutTable(kind)) = COUNTS[kind]
            /\ Len(OrigTable(kind)) = COUNTS[kind]
            /\ \A idx \in Indexes(kind) :
                   \/ OutAsset(kind, idx) = OrigAsset(kind, idx)
                   \/ \E f \in SubstituteFiles(kind, idx) : OutAsset(kind, idx) = f.data

\* the part of C11 that is about the number of records
C11_RecordCounts ==
    pc = "done" =>
        \A kind \in Kinds :
            Len(OutTable(kind)) = COUNTS[kind] /\ Len(OrigTable(kind)) = COUNTS[kind]

\* C12: after a completed repack the output archive is as long as the final
\* value of the write cursor
C12_LengthIsCursor == pc = "done" => Len(new_f) = current_offset

\* the same for the repack of a consistent original to a path of its own
C12_ConsistentLength ==
    (pc = "done" /\ ConsistentOriginal /\ SeparatePaths) => Len(new_f) = current_offset

(***************************************************************************)
(* The configured layout, in full size (the repack above runs on the same  *)
(* layout with fewer records: TABLE_OFFSETS, COUNTS).                      *)
(***************************************************************************)
PEPPER_GRINDER_FORMAT ==
    [count |-> [images |-> 10260, sounds |-> 267, fonts |-> 19, shaders |-> 3],
     table_offsets |-> [images |-> 0, sounds |-> 82048, fonts |-> 84184,
                        shaders |-> 84336]]

\* where the table of a kind ends
TableEnd(offsets, counts, kind) == offsets[kind] + RecordSize * counts[kind]

\* the tables lie back to back from byte 0 and the payload region starts
\* where the last one ends
BackToBack(offsets, counts) ==
    /\ offsets.images = 0
    /\ offsets.sounds = TableEnd(offsets, counts, "images")
    /\ offsets.fonts = TableEnd(offsets, counts, "sounds")
    /\ offsets.shaders = TableEnd(offsets, counts, "fonts")
    /\ counts.images * 8 + counts.sounds * 8 + counts.fonts * 8 + counts.shaders * 8
         = TableEnd(offsets, counts, "shaders")

\* two tables share a byte
TablesOverlap(offsets, counts, k1, k2) ==
    /\ offsets[k1] < TableEnd(offsets, counts, k2)
    /\ offsets[k2] < TableEnd(offsets, counts, k1)

\* C13: the configured tables, which every archive the repack writes has, are
\* pairwise disjoint and lie back to back from byte 0, and metadata_size, the
\* sum of count * 8, is the end of the last table
C13_TableLayout ==
    out_exists =>
        /\ BackToBack(PEPPER_GRINDER_FORMAT.table_offsets, PEPPER_GRINDER_FORMAT.count)
        /\ \A k1, k2 \in Kinds :
               k1 # k2 => ~TablesOverlap(PEPPER_GRINDER_FORMAT.table_offsets,
                                         PEPPER_GRINDER_FORMAT.count, k1, k2)

\* the layout the repack runs on has the shape of the configured one: the
\* sound table starts TableOverlap records before the image table ends (4 in
\* full size), the other tables follow each other, and metadata_size lies
\* 8 * TableOverlap bytes behind the last table
SameShape ==
    /\ TableEnd(PEPPER_GRINDER_FORMAT.table_offsets, PEPPER_GRINDER_FORMAT.count, "images")
         - PEPPER_GRINDER_FORMAT.table_offsets.sounds = RecordSize * 4
    /\ TableEnd(TABLE_OFFSETS, COUNTS, "images") - TABLE_OFFSETS.sounds
         = RecordSize * TableOverlap
    /\ \A layout \in {<<PEPPER_GRINDER_FORMAT.table_offsets, PEPPER_GRINDER_FORMAT.count>>,
                      <<TABLE_OFFSETS, COUNTS>>} :
           /\ layout[1].images = 0
           /\ layout[1].fonts = TableEnd(layout[1], layout[2], "sounds")
           /\ layout[1].shaders = TableEnd(layout[1], layout[2], "fonts")
    /\ metadata_size - TableEnd(TABLE_OFFSETS, COUNTS, "shaders") = RecordSize * TableOverlap
    /\ 10260 * 8 + 267 * 8 + 19 * 8 + 3 * 8
         - TableEnd(PEPPER_GRINDER_FORMAT.table_offsets, PEPPER_GRINDER_FORMAT.count, "shaders")
         = RecordSize * 4

\* C14: once the tables have been read, a table of which the original holds
\* fewer than count * 8 bytes from its offset has made the run fail, and
\* every other table was returned with count records
C14_TruncatedTableFails ==
    pc # "read" =>
        \A kind \in Kinds :
            IF Len(orig) < TableEnd(TABLE_OFFSETS, COUNTS, kind)
            THEN pc = "failed"
            ELSE Len(TableOf(kind)) = COUNTS[kind]

(***************************************************************************)
(* The table functions and extract_asset on their own: a file, a list of   *)
(* records and a table offset.                                             *)
(***************************************************************************)
MaxRecords == 2

MaxFileLen == 20

\* files of several lengths, the empty one among them
TableFiles == {[p \in 1..n |-> PayloadByte(p)] : n \in {0, 4, 16, MaxFileLen}}

\* the records: inside a file, reaching past its end, behind its end, and
\* the largest values the checker's integers hold (struct '<I' goes on to
\* 2^32 - 1)
Records ==
    {<<0, 0>>, <<0, 3>>, <<3, 3>>, <<18, 3>>, <<3, 258>>, <<258, 0>>,
     <<258, 2147483647>>, <<2147483647, 2147483647>>}

RECURSIVE ListsOf(_, _)
ListsOf(set, n) ==
    IF n = 0 THEN {<<>>}
    ELSE ListsOf(set, n - 1) \cup {Append(l, r) : l \in ListsOf(set, n - 1), r \in set}

TableInit ==
    /\ RepackIdle
    /\ CodecIdle
    /\ BatchIdle
    /\ NamingIdle
    /\ table_f \in TableFiles
    /\ table_entries \in ListsOf(Records, MaxRecords)
    /\ table_at \in {0, 5}
    /\ read_entries = <<>>
    /\ extracted = [exists |-> FALSE, data |-> <<>>, offset |-> 0, size |-> 0]
    /\ diagnosis = [valid |-> FALSE, messages |-> {}]
    /\ tpc = "idle"

\* write_asset_table(f, table_offset, entries)
WriteTable ==
    /\ tpc = "idle"
    /\ table_f' = write_asset_table(table_f, table_at, table_entries)
    /\ tpc' = "written"
    /\ UNCHANGED <<batch_vars, naming_vars, repack_vars, codec_vars, table_entries, table_at, read_entries,
                   extracted, diagnosis>>

\* read_asset_table(f, table_offset, count), of the file as it is or of the
\* file just written, with count the number of records
ReadTable ==
    /\ tpc \in {"idle", "written"}
    /\ read_entries' = read_asset_table(table_f, table_at, Len(table_entries))
    /\ tpc' = IF tpc = "written" THEN "read_back" ELSE "read"
    /\ UNCHANGED <<batch_vars, naming_vars, repack_vars, codec_vars, table_f, table_entries, table_at,
                   extracted, diagnosis>>

\* extract_asset(f, offset, size, output_path) for one of the records:
\* f.seek(offset); data = f.read(size); the output file is written
ExtractAsset ==
    /\ tpc = "idle"
    /\ \E k \in 1..Len(table_entries) :
          LET offset == table_entries[k][1]
              size == table_entries[k][2]
          IN  /\ offset < 2147483647
              /\ extracted' = [exists |-> TRUE, data |-> ReadAt(table_f, offset, size),
                               offset |-> offset, size |-> size]
    /\ tpc' = "extracted"
    /\ UNCHANGED <<batch_vars, naming_vars, repack_vars, codec_vars, table_f, table_entries, table_at,
                   read_entries, diagnosis>>

TableNext ==
    \/ WriteTable
    \/ ReadTable
    \/ ExtractAsset

TableSpec == TableInit /\ [][TableNext]_vars

\* C15: the records read back from where write_asset_table wrote them, as
\* many as were written, are the records written, in their order
C15_TableRoundTrip == tpc = "read_back" => read_entries = table_entries

\* two different records, 2^31 - 1 among the values, written at an offset
\* behind the end of the file and read back
C15_Witness ==
    /\ tpc = "read_back"
    /\ Len(table_entries) >= 2
    /\ table_entries[1] # table_entries[2]
    /\ table_entries[2] = <<258, 2147483647>>
    /\ table_at = 5
    /\ read_entries = table_entries

\* C16: extract_asset fails when offset + size is more than the length of
\* the source, and writes a file of exactly size bytes when it is not
C16_BoundedRead ==
    tpc = "extracted" =>
        IF extracted.size > Len(table_f) - extracted.offset
        THEN ~extracted.exists
        ELSE extracted.exists /\ Len(extracted.data) = extracted.size

(***************************************************************************)
(* diagnose_images.py and the decoders on .bin files found on disk.        *)
(***************************************************************************)
HeaderSize == 50

LargeDimension == 4096

\* a limit twice as high
Oversized_Doubled(dim) == dim > 2 * LargeDimension

\* diagnose_images.py line 54, for one of the two dimensions
Oversized(dim) == dim > LargeDimension

\* diagnose_bin_file(bin_path) on a file of these bytes: the value returned
\* and the warnings printed
diagnose_bin_file(data) ==
    LET width == UnpackH(SubSeq(data, 1, 2))
        height == UnpackH(SubSeq(data, 3, 4))
        decompressed_size == UnpackH(SubSeq(data, 47, 48))
        has_zlib == FindMarker(data, Min(100, Len(data) - 1)) # -1
        zlib_message == IF has_zlib THEN "zlib header found" ELSE "No zlib header found"
        expected_pixels == width * height * 4
    IN  IF Len(data) < HeaderSize
        THEN [valid |-> FALSE, messages |-> {"File too small"}]
        ELSE IF width = 0 \/ height = 0
        THEN [valid |-> FALSE, messages |-> {zlib_message, "Invalid dimensions"}]
        ELSE IF Oversized(width) \/ Oversized(height)
        THEN [valid |-> FALSE, messages |-> {zlib_message, "Suspiciously large dimensions"}]
        ELSE [valid |-> TRUE,
              messages |-> {zlib_message} \cup
                           (IF decompressed_size # expected_pixels
                            THEN {"Size mismatch"} ELSE {})]

\* n bytes of opaque white
Pixels(n) == [k \in 1..n |-> 255] \o <<>>

\* a .bin file: the header with its dimensions and decompressed size, gap
\* bytes between the header and the stream, the stream
Blob(width, height, decompressed_size, gap, stream) ==
    PackH(width) \o PackH(height) \o Zeros(42) \o PackH(decompressed_size % 65536)
        \o Zeros(2) \o Zeros(gap) \o stream

\* small sizes, zero among them, and sizes around the 4096 of the check
BlobSizes ==
    {<<width, height>> \in (0..MaxDim) \X (0..MaxDim) : width * height <= MaxDim}
        \cup {<<4095, 1>>, <<4096, 1>>, <<4097, 1>>, <<1, 4096>>, <<1, 4097>>}

\* the pixel buffer is as long as the size says, one byte shorter, a pixel
\* longer, or three bytes a pixel
PixelLengths(width, height) ==
    IF width * height > MaxDim
    THEN {width * height * 4, 4}
    ELSE {n \in {width * height * 4, width * height * 4 - 1, width * height * 4 + 4,
                 width * height * 3} : n >= 0}

\* the stream starts behind the header, at byte 100, or later
Gaps == {0, 50, 60}

BlobsOf(width, height) ==
    {Blob(width, height, n, gap, Compress(Pixels(n), level)) :
        n \in PixelLengths(width, height), gap \in Gaps, level \in {6, 9}}

\* the files: a header and a stream, a header alone, and files cut short
Blobs ==
    UNION {BlobsOf(size[1], size[2]) : size \in BlobSizes}
        \cup {Blob(1, 1, 4, 0, <<>>), SubSeq(Blob(1, 1, 4, 0, <<>>), 1, HeaderSize - 1),
              <<1, 0, 1>>, <<>>}

\* a .bin file on disk, nothing encoded in this run; the decoders start
\* from where a file is there
BlobInit ==
    /\ RepackIdle
    /\ ToolsIdle
    /\ BatchIdle
    /\ NamingIdle
    /\ img = [w |-> 0, h |-> 0, pat |-> <<>>]
    /\ original_header = <<>>
    /\ force_dimensions = <<>>
    /\ encoded = [status |-> "none", data |-> <<>>, by |-> ""]
    /\ \E data \in Blobs : bin_file = [exists |-> TRUE, data |-> data]
    /\ decoded = [status |-> "none", mode |-> "", w |-> 0, h |-> 0, pixels |-> <<>>]
    /\ cpc = "encoded"
    /\ SmartIdle

\* scan_directory: is_valid = diagnose_bin_file(bin_file)
Diagnose ==
    /\ tpc = "idle"
    /\ bin_file.exists
    /\ diagnosis' = diagnose_bin_file(bin_file.data)
    /\ tpc' = "diagnosed"
    /\ UNCHANGED <<batch_vars, naming_vars, repack_vars, codec_vars, table_f, table_entries, table_at,
                   read_entries, extracted>>

BlobNext ==
    \/ Diagnose
    \/ DecodeImage
    \/ DecodeInline

BlobSpec == BlobInit /\ [][BlobNext]_vars

BlobWidth == UnpackH(SubSeq(bin_file.data, 1, 2))

BlobHeight == UnpackH(SubSeq(bin_file.data, 3, 4))

\* C17: a file shorter than 50 bytes, or with a width or height of 0, or
\* with a width or height of 4096 or more, is reported as not valid
C17_Rejected ==
    (/\ tpc = "diagnosed"
     /\ IF Len(bin_file.data) < HeaderSize THEN TRUE
        ELSE BlobWidth = 0 \/ BlobHeight = 0
               \/ BlobWidth >= LargeDimension \/ BlobHeight >= LargeDimension)
        => ~diagnosis.valid

\* C17, amended: a file shorter than 50 bytes, or with a width or height of
\* 0, or with a width or height above 4096, is reported as not valid
C17_Amended ==
    (/\ tpc = "diagnosed"
     /\ IF Len(bin_file.data) < HeaderSize THEN TRUE
        ELSE BlobWidth = 0 \/ BlobHeight = 0
               \/ BlobWidth > LargeDimension \/ BlobHeight > LargeDimension)
        => ~diagnosis.valid

\* a file with a stream and a height of 4097 has been diagnosed and rejected
C17_Witness ==
    /\ tpc = "diagnosed"
    /\ Len(bin_file.data) > HeaderSize
    /\ BlobWidth = 1
    /\ BlobHeight = LargeDimension + 1
    /\ ~diagnosis.valid

\* the first byte of a 78 9C pair inside the first 100 bytes, or -1
MarkerInWindow == FindMarker(bin_file.data, Min(100, Len(bin_file.data) - 1))

\* C18: a file is reported valid only if a 78 9C marker starts inside its
\* first 100 bytes and the decompressed size of its header is
\* width * height * 4
C18_ValidOnlyIfSound ==
    (tpc = "diagnosed" /\ diagnosis.valid) =>
        /\ MarkerInWindow # -1
        /\ UnpackH(SubSeq(bin_file.data, 47, 48)) = BlobWidth * BlobHeight * 4

\* what the stream behind the marker inflates to
Inflated ==
    Decompress(SubSeq(bin_file.data, MarkerInWindow + 1, Len(bin_file.data)))

\* C19: when the stream inflates to a length other than width * height * 4,
\* decoding fails and returns no image
C19_StrictByDefault ==
    (cpc = "decoded" /\ Len(bin_file.data) >= 4 /\ MarkerInWindow # -1
        /\ Inflated.ok /\ Len(Inflated.data) # BlobWidth * BlobHeight * 4)
        => decoded.status # "ok"

\* C20: when no marker starts inside the window, decoding fails with the
\* error of the missing marker
C20_BoundedSearch ==
    (cpc = "decoded" /\ Len(bin_file.data) >= 4 /\ MarkerInWindow = -1)
        => decoded.status = "ValueError: no zlib data"

(***************************************************************************)
(* Offsets, ranges and the order of the writes of a repack.                *)
(***************************************************************************)
\* the records of the output archive in the order images, sounds, fonts,
\* shaders and, within a table, index order
OutSeq == OutTable("images") \o OutTable("sounds") \o OutTable("fonts") \o OutTable("shaders")

\* the same of the tables repack holds in memory
MemSeq == image_table \o sound_table \o font_table \o shader_table

RECURSIVE SumSizes(_, _)
SumSizes(records, k) == IF k = 0 THEN 0 ELSE records[k][2] + SumSizes(records, k - 1)

Cumulative(records) ==
    \A k \in 1..Len(records) : records[k][1] = metadata_size + SumSizes(records, k - 1)

\* C24: after a repack of a consistent original to a path of its own (every
\* length written is the size recorded), each record's offset is metadata_size plus the sum
\* of the lengths of the records before it in table-then-index order
C24_CumulativeOffsets ==
    (pc = "done" /\ ConsistentOriginal /\ SeparatePaths) => Cumulative(OutSeq)

\* the same of the records as repack assigned them, before they are written
C24_Assigned ==
    (pc = "done" /\ ConsistentOriginal /\ SeparatePaths) => Cumulative(MemSeq)

\* the same where no shader is empty
C24_AssignedCopied ==
    (pc = "done" /\ ConsistentOriginal /\ \A k \in 1..Len(shader_table) : shader_table[k][2] > 0)
        => Cumulative(MemSeq)

\* C26: after a repack of a consistent original to a path of its own, every
\* record of the output ends inside the output file and no record's range
\* shares a byte with the table region
C26_ConsistentOutput ==
    (pc = "done" /\ ConsistentOriginal /\ SeparatePaths) =>
        \A kind \in Kinds :
            /\ Len(OutTable(kind)) = COUNTS[kind]
            /\ \A idx \in Indexes(kind) :
                  LET offset == OutTable(kind)[idx + 1][1]
                      size == OutTable(kind)[idx + 1][2]
                  IN  /\ offset + size <= Len(new_f)
                      /\ size > 0 => offset >= metadata_size

\* the same of the records that are not empty
C26_NonEmptyRecords ==
    (pc = "done" /\ ConsistentOriginal /\ SeparatePaths) =>
        \A kind \in Kinds :
            /\ Len(OutTable(kind)) = COUNTS[kind]
            /\ \A idx \in Indexes(kind) :
                  LET offset == OutTable(kind)[idx + 1][1]
                      size == OutTable(kind)[idx + 1][2]
                  IN  size > 0 => offset + size <= Len(new_f) /\ offset >= metadata_size

\* C28: from the opening of the output until the four tables are written
\* at the end, the table region of the output holds the zero placeholder and
\* the write cursor is behind it: no table record and no payload byte is
\* written into the region before all payload is written
C28_TablesLast ==
    (out_exists /\ pc # "done") =>
        /\ ReadAt(new_f, 0, metadata_size) = Zeros(metadata_size)
        /\ Len(new_f) >= metadata_size
        /\ current_offset >= metadata_size

\* all four loops are through, a substitute and copied payload are in the
\* output, and the table region is still the placeholder
C28_Witness ==
    /\ pc = "tables"
    /\ modified_images # <<>>
    /\ Len(new_f) > metadata_size + 1
    /\ shader_table # <<>> /\ shader_table[1][2] > 0
    /\ ReadAt(new_f, 0, metadata_size) = Zeros(metadata_size)

\* C29: whatever the original path, the substitute directory and the
\* output path are, after a repack (completed or failed) the file at the
\* original path holds the bytes it held when repack was called
C29_OriginalUntouched == pc \in {"done", "failed"} => orig_f = orig

\* the same, at every moment, where the output path is not the original path
C29_SeparatePaths == output_assets # original_assets => orig_f = orig

(***************************************************************************)
(* The headers and the stream marker of the encoders' output.              *)
(***************************************************************************)
\* C23: encoding with no source header gives the default header: the
\* hotspot (bytes 16..23) is (width / 2, height / 2), the flags (bytes
\* 24..25) are 2, and bytes 8..11, 26..45 and 48..49 are zero
C23_DefaultHeader ==
    (/\ Encoded
     /\ encoded.by = "fixed"
     /\ encoded.status = "ok"
     /\ ~HasSourceHeader)
    => /\ UnpackF(SubSeq(OutHeader, 17, 20)) = Odd(NewWidth, -1)
       /\ UnpackF(SubSeq(OutHeader, 21, 24)) = Odd(NewHeight, -1)
       /\ UnpackH(SubSeq(OutHeader, 25, 26)) = 2
       /\ \A k \in (9..12) \cup (27..46) \cup (49..50) : OutHeader[k] = 0

\* the 127 x 129 image encoded with no source header: the hotspot reads
\* 63.5 (00 00 7E 42) and 64.5 (00 00 81 42), the flags 2
C23_Witness ==
    /\ Encoded
    /\ encoded.by = "fixed"
    /\ encoded.status = "ok"
    /\ original_header = <<>>
    /\ NewWidth = 127
    /\ NewHeight = 129
    /\ SubSeq(OutHeader, 17, 20) = <<0, 0, 126, 66>>
    /\ SubSeq(OutHeader, 21, 24) = <<0, 0, 129, 66>>
    /\ SubSeq(OutHeader, 25, 26) = <<2, 0>>

\* C25: every file an encoder returns has the marker 78 9C, which the
\* decoders and diagnose_bin_file search for, at bytes 50..51, and that is
\* the first place where the marker occurs
C25_MarkerAtPayload ==
    (Encoded /\ encoded.status = "ok") =>
        /\ SubSeq(encoded.data, 51, 52) = <<120, 156>>
        /\ FindMarker(encoded.data, Len(encoded.data) - 1) = 50

\* the header positions (from 1) an encode over a source header may change:
\* the six size copies, decompressed_size and, on a change of the
\* dimensions, bytes 20..45
NamedFields ==
    (1..8) \cup (13..16) \cup (47..48)
        \cup (IF SourceWidth # NewWidth \/ SourceHeight # NewHeight THEN 21..46 ELSE {})

\* C27: encoding over a 50-byte source header leaves every header byte
\* outside the named fields as it was in the source header
C27_OnlyNamedFields ==
    (Encoded /\ encoded.status = "ok" /\ HasSourceHeader) =>
        \A k \in (1..50) \ NamedFields : OutHeader[k] = original_header[k]

\* the same of optimize_smart.py's encoder, and of encode_images_fixed.py's
\* where no dimensions are forced
C27_WithoutForce ==
    (/\ Encoded /\ encoded.status = "ok" /\ HasSourceHeader
     /\ (encoded.by = "inline" \/ force_dimensions = <<>>)) =>
        \A k \in (1..50) \ NamedFields : OutHeader[k] = original_header[k]

(***************************************************************************)
(* optimize_smart.py: optimize_single_image_smart on a .bin file.          *)
(***************************************************************************)
\* a skip only of images below the minimum
AlreadyTooSmall_Below(orig_w, orig_h, least) == orig_w < least \/ orig_h < least

\* lines 108-109: either dimension is <= min_dimension
AlreadyTooSmall(orig_w, orig_h, least) == orig_w <= least \/ orig_h <= least

\* lines 112-119: max(1, int(orig * scale_factor)), raised to min_dimension.
\* The factor is num / den with den a power of two, so that the float
\* product is the exact one and int() its floor
ScaledDimension(orig_dim, factor, least) ==
    LET scaled == Max(1, (orig_dim * factor[1]) \div factor[2])
    IN  IF scaled < least THEN least ELSE scaled

NotSaved(reason) == [exists |-> FALSE, data |-> <<>>, saved |-> FALSE, reason |-> reason]

\* the file written at the output path, if any, and the value returned
optimize_single_image_smart(original_data, factor, least) ==
    LET image == decode_chowdren_image_inline(original_data)
        orig_w == image.w
        orig_h == image.h
        new_w == ScaledDimension(orig_w, factor, least)
        new_h == ScaledDimension(orig_h, factor, least)
        img_resized == Resize([w |-> orig_w, h |-> orig_h, pat |-> image.pixels],
                              new_w, new_h)
        encoded_data == encode_chowdren_image_inline(img_resized, original_data)
    IN  IF Len(original_data) < 50 THEN NotSaved("too_small")
        ELSE IF image.status # "ok" THEN NotSaved("error")
        ELSE IF AlreadyTooSmall(orig_w, orig_h, least) THEN NotSaved("too_small")
        ELSE IF new_w = orig_w /\ new_h = orig_h THEN NotSaved("no_change")
        ELSE IF new_w * new_h * 4 > 65535 THEN NotSaved("would_be_too_large")
        ELSE IF encoded_data.status # "ok" THEN NotSaved("error")
        ELSE [exists |-> TRUE, data |-> encoded_data.data, saved |-> TRUE,
              reason |-> "saved"]

\* sizes at and around the default minimum of 16, and a strip that stays
\* over the limit of 65535 bytes when scaled by 3/4
SmartSizes == {<<1, 1>>, <<16, 40>>, <<17, 17>>, <<17, 40>>, <<40, 40>>, <<22000, 1>>}

ScaleFactors == {<<1, 4>>, <<1, 2>>, <<3, 4>>, <<1, 1>>, <<3, 2>>}

MinDimensions == {0, 16, 32}

\* the source files: decodable ones of each size, one whose stream is of
\* level 9, one whose stream is a pixel short, one cut inside the header
SmartSources ==
    {Blob(size[1], size[2], size[1] * size[2] * 4, 0,
          Compress(Pixels(size[1] * size[2] * 4), 6)) : size \in SmartSizes}
        \cup {Blob(40, 40, 6400, 0, Compress(Pixels(6400), 9)),
              Blob(40, 40, 6400, 0, Compress(Pixels(6396), 6)),
              SubSeq(Blob(40, 40, 6400, 0, <<>>), 1, 49)}

SmartInit ==
    /\ RepackIdle
    /\ ToolsIdle
    /\ BatchIdle
    /\ NamingIdle
    /\ img = [w |-> 0, h |-> 0, pat |-> <<>>]
    /\ original_header = <<>>
    /\ force_dimensions = <<>>
    /\ encoded = [status |-> "none", data |-> <<>>, by |-> ""]
    /\ \E data \in SmartSources : bin_file = [exists |-> TRUE, data |-> data]
    /\ decoded = [status |-> "none", mode |-> "", w |-> 0, h |-> 0, pixels |-> <<>>]
    /\ cpc = "idle"
    /\ scale_factor \in ScaleFactors
    /\ min_dimension \in MinDimensions
    /\ optimized = [exists |-> FALSE, data |-> <<>>, saved |-> FALSE, reason |-> ""]

OptimizeSingleImageSmart ==
    /\ cpc = "idle"
    /\ bin_file.exists
    /\ optimized' = optimize_single_image_smart(bin_file.data, scale_factor, min_dimension)
    /\ cpc' = "optimized"
    /\ UNCHANGED <<batch_vars, naming_vars, repack_vars, tool_vars, img, original_header, force_dimensions, encoded,
                   bin_file, decoded, scale_factor, min_dimension>>

SmartNext == OptimizeSingleImageSmart

SmartSpec == SmartInit /\ [][SmartNext]_vars

\* the dimensions in the header of the file written
SavedWidth == UnpackH(SubSeq(optimized.data, 1, 2))

SavedHeight == UnpackH(SubSeq(optimized.data, 3, 4))

\* C30: for a scale factor in (0, 1] a file is written only when the source
\* has both dimensions above min_dimension, the new dimensions lie between
\* min_dimension and the source's, differ from the source's, and give at
\* most 65535 pixel bytes; in every other case nothing is written and one of
\* too_small, no_change, would_be_too_large, error is returned
C30_SafeAndSmaller ==
    (cpc = "optimized" /\ scale_factor[1] > 0 /\ scale_factor[1] <= scale_factor[2]) =>
        IF optimized.exists
        THEN /\ optimized.saved
             /\ Len(bin_file.data) >= 50
             /\ BlobWidth > min_dimension /\ BlobHeight > min_dimension
             /\ min_dimension <= SavedWidth /\ SavedWidth <= BlobWidth
             /\ min_dimension <= SavedHeight /\ SavedHeight <= BlobHeight
             /\ <<SavedWidth, SavedHeight>> # <<BlobWidth, BlobHeight>>
             /\ SavedWidth * SavedHeight * 4 <= 65535
        ELSE /\ ~optimized.saved
             /\ optimized.reason \in {"too_small", "no_change", "would_be_too_large", "error"}

\* a 17 x 40 image halved with min_dimension 16: the width is raised from 8
\* to 16, the file of the 16 x 20 image is written
C30_Witness ==
    /\ cpc = "optimized"
    /\ scale_factor = <<1, 2>>
    /\ min_dimension = 16
    /\ BlobWidth = 17 /\ BlobHeight = 40
    /\ optimized.exists
    /\ SavedWidth = 16 /\ SavedHeight = 20

(***************************************************************************)
(* The two batches over a directory: batch_decode_images of                *)
(* decode_images.py and scan_directory of diagnose_images.py.  A directory *)
(* entry is a stem, the bytes of the file, and whether open() succeeds on  *)
(* it (it does not on a file without read permission, or on a directory    *)
(* whose name ends in .bin).                                               *)
(***************************************************************************)
Entry(field, data, readable) ==
    [stem |-> <<StrImage, field>>, data |-> data, readable |-> readable]

\* image_00000.bin decodes; image_00001.bin has no stream; the stream of
\* image_00002.bin is damaged; image_00003.bin is 3 bytes long;
\* image_00004.bin cannot be opened; image_x.bin is empty
BatchPool ==
    { Entry(ZeroPad(0, 5), Blob(1, 1, 4, 0, Compress(Pixels(4), 6)), TRUE),
      Entry(ZeroPad(1, 5), Blob(1, 1, 4, 0, <<>>), TRUE),
      Entry(ZeroPad(2, 5), Blob(1, 1, 4, 0, <<ZlibCMF, 156, 0, 0, 255, 4, 0>>), TRUE),
      Entry(ZeroPad(3, 5), <<1, 0, 1>>, TRUE),
      Entry(ZeroPad(4, 5), <<>>, FALSE),
      Entry(<<120>>, <<>>, TRUE) }

\* the orders in which a glob can return the entries of a directory
Listings(entries) ==
    {l \in [1..Cardinality(entries) -> entries] :
        \A k1, k2 \in 1..Cardinality(entries) : k1 # k2 => l[k1] # l[k2]}

\* str comparison of Python
RECURSIVE StrLess(_, _)
StrLess(a, b) ==
    IF a = <<>> THEN b # <<>>
    ELSE IF b = <<>> THEN FALSE
    ELSE IF a[1] # b[1] THEN a[1] < b[1]
    ELSE StrLess(Tail(a), Tail(b))

\* sorted(Path(directory).glob('image_*.bin'))
Sorted(entries) ==
    CHOOSE l \in Listings(entries) :
        \A k \in 1..(Len(l) - 1) : StrLess(l[k].stem[2], l[k + 1].stem[2])

BatchDirs == {d \in SUBSET BatchPool : Cardinality(d) <= MaxFiles}

\* the directory has been listed: in any order by batch_decode_images
\* (line 113), sorted by scan_directory (line 75)
BatchInit ==
    /\ RepackIdle
    /\ CodecIdle
    /\ ToolsIdle
    /\ NamingIdle
    /\ batch_job \in {"decode", "scan"}
    /\ \E d \in BatchDirs :
           IF batch_job = "decode" THEN batch_files \in Listings(d)
           ELSE batch_files = Sorted(d)
    /\ batch_i = 0
    /\ success_count = 0
    /\ valid = <<>>
    /\ invalid = <<>>
    /\ reports = <<>>
    /\ bpc = "running"

\* decode_image_file(bin_file, output_path) returned True
DecodedOk(data) == decode_chowdren_image(data).status = "ok"

\* decode_image_file opens and reads the file (lines 86-87) before its try
\* (line 89): what open() raises leaves decode_image_file
OpenRaises(entry) == ~entry.readable

\* one pass of the loop of batch_decode_images (lines 124-132)
DecodeOne ==
    /\ bpc = "running"
    /\ batch_job = "decode"
    /\ batch_i < Len(batch_files)
    /\ LET bin_file_i == batch_files[batch_i + 1]
           ok == bin_file_i.readable /\ DecodedOk(bin_file_i.data)
       IN  IF OpenRaises(bin_file_i)
           THEN /\ bpc' = "raised"
                /\ UNCHANGED <<batch_i, success_count, reports>>
           ELSE /\ reports' = Append(reports, [stem |-> bin_file_i.stem, ok |-> ok])
                /\ success_count' = success_count + (IF ok THEN 1 ELSE 0)
                /\ batch_i' = batch_i + 1
                /\ bpc' = bpc
    /\ UNCHANGED <<naming_vars, repack_vars, codec_vars, tool_vars, batch_job, batch_files,
                   valid, invalid>>

\* the end of batch_decode_images: "No .bin files found" (lines 115-117) or
\* "Successfully decoded: success_count/len(bin_files)" (lines 134-135)
DecodeSummary ==
    /\ bpc = "running"
    /\ batch_job = "decode"
    /\ batch_i = Len(batch_files)
    /\ bpc' = "done"
    /\ UNCHANGED <<naming_vars, repack_vars, codec_vars, tool_vars, batch_job, batch_files,
                   batch_i, success_count, valid, invalid, reports>>

\* diagnose_bin_file(bin_file) returned True; stat() and open() are inside
\* its try (lines 11-15, 68-70)
DiagnosedValid(entry) == entry.readable /\ diagnose_bin_file(entry.data).valid

\* one pass of the loop of scan_directory (lines 83-89)
ScanOne ==
    /\ bpc = "running"
    /\ batch_job = "scan"
    /\ batch_i < Len(batch_files)
    /\ LET bin_file_i == batch_files[batch_i + 1]
           is_valid == DiagnosedValid(bin_file_i)
       IN  /\ valid' = IF is_valid THEN Append(valid, bin_file_i) ELSE valid
           /\ invalid' = IF is_valid THEN invalid ELSE Append(invalid, bin_file_i)
           /\ reports' = Append(reports, [stem |-> bin_file_i.stem, ok |-> is_valid])
    /\ batch_i' = batch_i + 1
    /\ UNCHANGED <<naming_vars, repack_vars, codec_vars, tool_vars, batch_job, batch_files,
                   success_count, bpc>>

\* the summary of scan_directory (lines 91-94) and the list of the invalid
\* files (lines 96-100), where int() raises on a name like image_x.bin
ScanSummary ==
    /\ bpc = "running"
    /\ batch_job = "scan"
    /\ batch_i = Len(batch_files)
    /\ bpc' = IF \E k \in 1..Len(invalid) : ParseInt(invalid[k].stem[2]) = -1
              THEN "raised" ELSE "done"
    /\ UNCHANGED <<naming_vars, repack_vars, codec_vars, tool_vars, batch_job, batch_files,
                   batch_i, success_count, valid, invalid, reports>>

BatchNext ==
    \/ DecodeOne
    \/ DecodeSummary
    \/ ScanOne
    \/ ScanSummary

BatchSpec == BatchInit /\ [][BatchNext]_vars

\* what the batch says of a file when the file is alone in the directory
Alone(entry) ==
    IF batch_job = "decode" THEN entry.readable /\ DecodedOk(entry.data)
    ELSE DiagnosedValid(entry)

\* every file has its report, in the order of the listing, and the report
\* is the one the file gets alone
EveryFileReported ==
    /\ Len(reports) = Len(batch_files)
    /\ \A k \in 1..Len(batch_files) :
           reports[k] = [stem |-> batch_files[k].stem, ok |-> Alone(batch_files[k])]

Successes == IF batch_job = "decode" THEN success_count ELSE Len(valid)

Failures ==
    IF batch_job = "decode"
    THEN Cardinality({k \in 1..Len(reports) : ~reports[k].ok})
    ELSE Len(invalid)

BatchOver == bpc \in {"done", "raised"}

\* C21: Batch isolation.  When a batch decode or a directory scan is over,
\* every file of the directory has been processed and reported exactly
\* once, with the outcome it has on its own, whatever happened to the other
\* files; successes plus failures is the number of files.
C21_BatchIsolation ==
    BatchOver => (EveryFileReported /\ Successes + Failures = Len(batch_files))

\* C21 holds of the directory scan
C21_ScanIsolation ==
    (BatchOver /\ batch_job = "scan")
        => (EveryFileReported /\ Successes + Failures = Len(batch_files))

\* C21 holds of the batch decode of a directory whose entries can all be
\* opened: a missing marker, a damaged stream and a short header are caught
C21_ReadableBatch ==
    (BatchOver /\ \A k \in 1..Len(batch_files) : batch_files[k].readable)
        => (EveryFileReported /\ Successes + Failures = Len(batch_files))

\* a batch decode that got through a file without a marker, and a scan that
\* got through an entry it could not open
C21_Caught ==
    /\ bpc = "done"
    /\ Len(batch_files) = 2
    /\ ~reports[1].ok
    /\ reports[2].ok

(***************************************************************************)
(* The names extract.py gives the files it writes, and what repack_assets  *)
(* finds when the output directory of extract.py is its modified_dir.      *)
(***************************************************************************)
\* data[:n] == magic
StartsWith(data, magic) == Len(data) >= Len(magic) /\ SubSeq(data, 1, Len(magic)) = magic

detect_image_format(data) ==
    IF StartsWith(data, <<137, 80, 78, 71>>) THEN "png"
    ELSE IF StartsWith(data, <<255, 216>>) THEN "jpg"
    ELSE IF StartsWith(data, <<66, 77>>) THEN "bmp"
    ELSE IF StartsWith(data, <<68, 68, 83, 32>>) THEN "dds"
    ELSE "bin"

\* extract_sounds: header = f.read(4), 'OggS' or 'RIFF'
SoundFormat(data) ==
    LET header == SubSeq(data, 1, Min(4, Len(data)))
    IN  IF header = <<79, 103, 103, 83>> THEN "ogg"
        ELSE IF header = <<82, 73, 70, 70>> THEN "wav"
        ELSE "bin"

\* extract_fonts: header[:4] in [b'\x00\x01\x00\x00', b'OTTO', b'true']
FontFormat(data) ==
    IF SubSeq(data, 1, Min(4, Len(data)))
           \in {<<0, 1, 0, 0>>, <<79, 84, 84, 79>>, <<116, 114, 117, 101>>}
    THEN "ttf" ELSE "bin"

\* the width of the index in the name: {i:05d}, {i:03d}, {i:02d}, {i:02d}
IndexWidth(kind) ==
    CASE kind = "images" -> 5
      [] kind = "sounds" -> 3
      [] kind = "fonts" -> 2
      [] kind = "shaders" -> 2

SniffedExt(kind, data) ==
    CASE kind = "images" -> detect_image_format(data)
      [] kind = "sounds" -> SoundFormat(data)
      [] kind = "fonts" -> FontFormat(data)
      [] kind = "shaders" -> "glsl"

\* the file extract.py writes for asset idx of a table, the asset being
\* these bytes
ExtractedFile(kind, idx, data) ==
    File(kind, <<Prefix(kind), ZeroPad(idx, IndexWidth(kind))>>, SniffedExt(kind, data),
         data, TRUE)

\* the assets start as a PNG, a JPEG, a BMP, a DDS, an Ogg stream, a RIFF
\* file, the three fonts, a Chowdren bitmap; or are empty
AssetHeads ==
    { <<137, 80, 78, 71>>, <<255, 216, 255>>, <<66, 77>>, <<68, 68, 83, 32>>,
      <<79, 103, 103, 83>>, <<82, 73, 70, 70>>, <<0, 1, 0, 0>>, <<79, 84, 84, 79>>,
      <<116, 114, 117, 101>>, <<1, 0, 1, 0>>, <<>> }

NamingInit ==
    /\ RepackIdle
    /\ CodecIdle
    /\ ToolsIdle
    /\ BatchIdle
    /\ asset_kind \in {"images", "sounds", "fonts", "shaders"}
    /\ asset_index \in 0..(COUNTS[asset_kind] - 1)
    /\ asset_head \in AssetHeads
    /\ output_dir = {}
    /\ npc = "idle"

\* extract_images / extract_sounds / extract_fonts / extract_shaders: the
\* pass of the loop for the asset
ExtractNamed ==
    /\ npc = "idle"
    /\ output_dir' = {ExtractedFile(asset_kind, asset_index, asset_head)}
    /\ npc' = "extracted"
    /\ UNCHANGED <<batch_vars, repack_vars, codec_vars, tool_vars, asset_kind, asset_index,
                   asset_head>>

\* repack_assets lines 78-109 with the output directory of extract.py as
\* modified_dir
DiscoverSubstitutes ==
    /\ npc = "extracted"
    /\ modified_dir' = output_dir
    /\ modified_images' \in Discovered(output_dir, "images")
    /\ modified_sounds' \in Discovered(output_dir, "sounds")
    /\ npc' = "discovered"
    /\ UNCHANGED <<batch_vars, codec_vars, tool_vars, asset_kind, asset_index, asset_head,
                   output_dir, orig, orig_f, output_assets, image_table, sound_table,
                   font_table, shader_table, new_f, out_exists, current_offset, pc, i>>

NamingNext ==
    \/ ExtractNamed
    \/ DiscoverSubstitutes

NamingSpec == NamingInit /\ [][NamingNext]_vars

\* repack_assets has the extracted file as the substitute of the asset
Recognised ==
    CASE asset_kind = "images" ->
             /\ asset_index \in DOMAIN modified_images
             /\ modified_images[asset_index] \in output_dir
      [] asset_kind = "sounds" ->
             /\ asset_index \in DOMAIN modified_sounds
             /\ modified_sounds[asset_index] \in output_dir
      [] OTHER -> FALSE

ExtractedExt == (CHOOSE f \in output_dir : TRUE).ext

\* C22: Naming round-trip between extract and repack.  The file extract
\* writes for index i of a kind, found in the substitute directory under
\* that kind, is the substitute repack has for index i of that kind.
C22_NamingRoundTrip == npc = "discovered" => Recognised

\* C22 holds of the images extract names .bin and the sounds it names .wav
C22_BinAndWav ==
    (/\ npc = "discovered"
     /\ \/ asset_kind = "images" /\ ExtractedExt = "bin"
        \/ asset_kind = "sounds" /\ ExtractedExt = "wav")
        => Recognised

\* C22 never holds of another file
C22_NothingElse ==
    (/\ npc = "discovered"
     /\ ~(asset_kind = "images" /\ ExtractedExt = "bin")
     /\ ~(asset_kind = "sounds" /\ ExtractedExt = "wav"))
        => ~Recognised
====
